---- MODULE Spec2Model ----
(***************************************************************************)
(* Model of src/streamlit_app.py: FlightCentreScraper.                     *)
(*                                                                         *)
(* Strings are sequences of one-character strings.  The seven typographic  *)
(* characters clean_text replaces are written as the named characters      *)
(* "EN", "EM", "RSQ", "LSQ", "LDQ", "RDQ", "ELL".  Markup is a nested tree *)
(* of nodes; the parsed document (soup) is a table of nodes addressed by   *)
(* id, as BeautifulSoup's objects are addressed by reference.              *)
(***************************************************************************)
EXTENDS Integers, Sequences, FiniteSets, TLC

VARIABLES pc, url, requests, response, scraper_type, html_content, soup,
          called, day_items, idx, itinerary_items, origin, summary, result,
          err, norm_in, norm_out

vars == <<pc, url, requests, response, scraper_type, html_content, soup,
          called, day_items, idx, itinerary_items, origin, summary, result,
          err, norm_in, norm_out>>

scrape_vars == <<pc, url, requests, response, scraper_type, html_content, soup,
                 called, day_items, idx, itinerary_items, origin, summary,
                 result, err>>

norm_vars == <<norm_in, norm_out>>

(***************************************************************************)
(* Bounds                                                                  *)
(***************************************************************************)
\* longest input string given to the normalizer
MaxLen == 3
\* most day items on a fetched page
MaxItems == 2

(***************************************************************************)
(* Python values and strings                                               *)
(***************************************************************************)
\* a Python value that is None or a str
PyNone == [none |-> TRUE, str |-> <<>>]

PyStr(s) == [none |-> FALSE, str |-> s]

\* `not text`: None and the empty string are falsy
Falsy(text) == text.none \/ text.str = <<>>

\* the id standing for Python's None where an element is expected
None == 0

EN == "EN"
EM == "EM"
RSQ == "RSQ"
LSQ == "LSQ"
LDQ == "LDQ"
RDQ == "RDQ"
ELL == "ELL"

Digits == {"0", "1", "2", "3", "4", "5", "6", "7", "8", "9"}

Whitespace == {" ", "\n", "\t"}

RECURSIVE Run(_, _, _)
\* length of the longest run of characters of S in s starting at position i
Run(s, i, S) ==
    IF i > Len(s) \/ s[i] \notin S THEN 0 ELSE 1 + Run(s, i + 1, S)

\* s has the literal lit at position i
HasAt(s, i, lit) ==
    /\ i >= 1
    /\ i + Len(lit) - 1 <= Len(s)
    /\ SubSeq(s, i, i + Len(lit) - 1) = lit

\* needle in hay
Contains(needle, hay) ==
    \E i \in 1..(Len(hay) + 1) : HasAt(hay, i, needle)

RECURSIVE str_replace_from(_, _, _, _)
str_replace_from(s, i, old, new) ==
    IF i > Len(s) THEN <<>>
    ELSE IF HasAt(s, i, old)
         THEN new \o str_replace_from(s, i + Len(old), old, new)
         ELSE <<s[i]>> \o str_replace_from(s, i + 1, old, new)

\* str.replace(old, new): every non-overlapping occurrence, left to right
str_replace(s, old, new) ==
    IF old = <<>> THEN s ELSE str_replace_from(s, 1, old, new)

RECURSIVE lstrip(_)
lstrip(s) ==
    IF s # <<>> /\ Head(s) \in Whitespace THEN lstrip(Tail(s)) ELSE s

RECURSIVE rstrip(_)
rstrip(s) ==
    IF s # <<>> /\ s[Len(s)] \in Whitespace
    THEN rstrip(SubSeq(s, 1, Len(s) - 1)) ELSE s

\* str.strip()
strip(s) == rstrip(lstrip(s))

RECURSIVE join(_, _)
\* sep.join(parts)
join(sep, parts) ==
    IF parts = <<>> THEN <<>>
    ELSE IF Len(parts) = 1 THEN parts[1]
    ELSE parts[1] \o sep \o join(sep, Tail(parts))

RECURSIVE split_from(_, _, _, _)
split_from(s, i, sep, cur) ==
    IF i > Len(s) THEN <<cur>>
    ELSE IF s[i] = sep THEN <<cur>> \o split_from(s, i + 1, sep, <<>>)
    ELSE split_from(s, i + 1, sep, Append(cur, s[i]))

\* str.split(sep) for a one-character separator
split(s, sep) == split_from(s, 1, sep, <<>>)

(***************************************************************************)
(* clean_text                                                              *)
(***************************************************************************)
\* a slip in the table: the left quote mapped to the right quote
replacements_m ==
    << <<EN, <<"-">> >>, <<EM, <<"-">> >>, <<RSQ, <<"'">> >>,
       <<LSQ, <<RSQ>> >>, <<LDQ, <<"\"">> >>, <<RDQ, <<"\"">> >>,
       <<ELL, <<".", ".", ".">> >> >>

\* the replacements dict, in insertion order
replacements ==
    << <<EN, <<"-">> >>, <<EM, <<"-">> >>, <<RSQ, <<"'">> >>,
       <<LSQ, <<"'">> >>, <<LDQ, <<"\"">> >>, <<RDQ, <<"\"">> >>,
       <<ELL, <<".", ".", ".">> >> >>

RECURSIVE replace_each(_, _)
\* the for loop over replacements.items()
replace_each(s, reps) ==
    IF reps = <<>> THEN s
    ELSE replace_each(str_replace(s, <<Head(reps)[1]>>, Head(reps)[2]), Tail(reps))

\* the normalizer left out
clean_text_m(text) == text

clean_text(text) ==
    IF Falsy(text) THEN text ELSE PyStr(replace_each(text.str, replacements))

(***************************************************************************)
(* The parsed document                                                     *)
(***************************************************************************)
\* markup constructors: an element and a text node
El(tag, cls, kids) == [tag |-> tag, cls |-> cls, text |-> <<>>, kids |-> kids]

Txt(s) == [tag |-> "#text", cls |-> {}, text |-> s, kids |-> <<>>]

Root == 1

RECURSIVE Size(_), SizeAll(_)
Size(t) == 1 + SizeAll(t.kids)

SizeAll(ts) == IF ts = <<>> THEN 0 ELSE Size(Head(ts)) + SizeAll(Tail(ts))

RECURSIVE Flatten(_, _), FlattenKids(_, _)
Flatten(t, id) ==
    << [tag |-> t.tag, cls |-> t.cls, text |-> t.text,
        kids |-> [k \in 1..Len(t.kids) |->
                     id + 1 + SizeAll(SubSeq(t.kids, 1, k - 1))]] >>
    \o FlattenKids(t.kids, id + 1)

FlattenKids(ts, id) ==
    IF ts = <<>> THEN <<>>
    ELSE Flatten(Head(ts), id) \o FlattenKids(Tail(ts), id + Size(Head(ts)))

\* BeautifulSoup(html_content, 'lxml'): the markup as a table of nodes,
\* ids in document order, the document node first
BeautifulSoup(markup) == Flatten(markup, Root)

RECURSIVE ToTree(_, _)
\* the tree reachable from node n
ToTree(h, n) ==
    [tag |-> h[n].tag, cls |-> h[n].cls, text |-> h[n].text,
     kids |-> [k \in 1..Len(h[n].kids) |-> ToTree(h, h[n].kids[k])]]

RECURSIVE descendants(_, _), descendants_of(_, _)
\* Tag.descendants: document order
descendants(h, n) == descendants_of(h, h[n].kids)

descendants_of(h, ks) ==
    IF ks = <<>> THEN <<>>
    ELSE <<Head(ks)>> \o descendants(h, Head(ks)) \o descendants_of(h, Tail(ks))

\* tag name among tags, and (when classes are given) a class among classes
Matches(node, tags, classes) ==
    /\ node.tag \in tags
    /\ classes = {} \/ node.cls \cap classes # {}

find_all(h, n, tags, classes, recursive) ==
    SelectSeq(IF recursive THEN descendants(h, n) ELSE h[n].kids,
              LAMBDA e : Matches(h[e], tags, classes))

find(h, n, tags, classes) ==
    LET r == find_all(h, n, tags, classes, TRUE)
    IN IF r = <<>> THEN None ELSE r[1]

RECURSIVE concat_stripped(_, _)
concat_stripped(h, es) ==
    IF es = <<>> THEN <<>>
    ELSE (IF h[Head(es)].tag = "#text" THEN strip(h[Head(es)].text) ELSE <<>>)
         \o concat_stripped(h, Tail(es))

\* get_text(strip=True): the stripped strings of the subtree, concatenated
get_text(h, n) == concat_stripped(h, descendants(h, n))

\* decompose(): e leaves its parent and the subtree of e is destroyed
decompose(h, e) ==
    LET gone == {e} \cup {descendants(h, e)[k] : k \in 1..Len(descendants(h, e))}
    IN [p \in DOMAIN h |->
          IF p \in gone THEN [h[p] EXCEPT !.kids = <<>>]
          ELSE [h[p] EXCEPT !.kids = SelectSeq(@, LAMBDA k : k # e)]]

(***************************************************************************)
(* String constants of the source                                          *)
(***************************************************************************)
\* "At Sea"
AT_SEA ==
    <<"A", "t", " ", "S", "e", "a">>

\* "Day at sea - enjoy the ship's amenities and relax as you cruise to your next destination."
SEA_DAY_BODY ==
    <<"D", "a", "y", " ", "a", "t", " ", "s", "e", "a", " ", "-", " ", "e",
      "n", "j", "o", "y", " ", "t", "h", "e", " ", "s", "h", "i", "p", "'",
      "s", " ", "a", "m", "e", "n", "i", "t", "i", "e", "s", " ", "a", "n",
      "d", " ", "r", "e", "l", "a", "x", " ", "a", "s", " ", "y", "o", "u",
      " ", "c", "r", "u", "i", "s", "e", " ", "t", "o", " ", "y", "o", "u",
      "r", " ", "n", "e", "x", "t", " ", "d", "e", "s", "t", "i", "n", "a",
      "t", "i", "o", "n", ".">>

\* "Explore "
EXPLORE ==
    <<"E", "x", "p", "l", "o", "r", "e", " ">>

\* " and enjoy the local attractions and culture."
AND_ENJOY ==
    <<" ", "a", "n", "d", " ", "e", "n", "j", "o", "y", " ", "t", "h", "e",
      " ", "l", "o", "c", "a", "l", " ", "a", "t", "t", "r", "a", "c", "t",
      "i", "o", "n", "s", " ", "a", "n", "d", " ", "c", "u", "l", "t", "u",
      "r", "e", ".">>

\* "cruises.flightcentre"
CRUISES_FLIGHTCENTRE ==
    <<"c", "r", "u", "i", "s", "e", "s", ".", "f", "l", "i", "g", "h", "t",
      "c", "e", "n", "t", "r", "e">>

\* "tours.flightcentre"
TOURS_FLIGHTCENTRE ==
    <<"t", "o", "u", "r", "s", ".", "f", "l", "i", "g", "h", "t", "c", "e",
      "n", "t", "r", "e">>

(***************************************************************************)
(* determine_scraper_type                                                  *)
(***************************************************************************)
\* the type returned when the URL is not recognized
NoType == "None"

\* a classifier that falls back to the tour scraper
determine_scraper_type_m(u) ==
    IF Contains(CRUISES_FLIGHTCENTRE, u) THEN "cruise" ELSE "tour"

determine_scraper_type(u) ==
    IF Contains(CRUISES_FLIGHTCENTRE, u) THEN "cruise"
    ELSE IF Contains(TOURS_FLIGHTCENTRE, u) THEN "tour"
    ELSE NoType

(***************************************************************************)
(* parse_cruise_itinerary_days                                             *)
(***************************************************************************)
\* a fresh day_info with all required keys
new_day_info == [icon |-> <<>>, day |-> <<>>, title |-> <<>>, image |-> <<>>,
                 body |-> <<>>]

\* re: Day\s+(\d+) matched at position i of s
CruiseDayAt(s, i) ==
    /\ HasAt(s, i, <<"D", "a", "y">>)
    /\ Run(s, i + 3, Whitespace) >= 1
    /\ Run(s, i + 3 + Run(s, i + 3, Whitespace), Digits) >= 1

\* re.search(r'Day\s+(\d+)', s): group(1) of the leftmost match, or None
cruise_day_match(s) ==
    IF \E i \in 1..Len(s) : CruiseDayAt(s, i)
    THEN LET i == CHOOSE j \in 1..Len(s) :
                      /\ CruiseDayAt(s, j)
                      /\ \A k \in 1..(j - 1) : ~CruiseDayAt(s, k)
             d == i + 3 + Run(s, i + 3, Whitespace)
         IN PyStr(SubSeq(s, d, d + Run(s, d, Digits) - 1))
    ELSE PyNone

\* the itinerary container: the dates accordion, else the accordion block
cruise_container(h) ==
    IF find(h, Root, {"div"}, {"grid-item-block-dates-accordion"}) # None
    THEN find(h, Root, {"div"}, {"grid-item-block-dates-accordion"})
    ELSE find(h, Root, {"div"}, {"accordion-block"})

\* first try: the text-info-summary span inside the first text-info span
first_try(h, content_wrap) ==
    LET text_info == find(h, content_wrap, {"span"}, {"text-info"})
        text_summary == IF text_info # None
                        THEN find(h, text_info, {"span"}, {"text-info-summary"})
                        ELSE None
    IN IF text_summary # None THEN get_text(h, text_summary) ELSE <<>>

\* the new structure is never looked at
second_try_m(h, content_wrap, description_text) == description_text

\* second try: a text-info-summary span anywhere in the content wrapper
second_try(h, content_wrap, description_text) ==
    IF description_text = <<>>
    THEN LET text_summary == find(h, content_wrap, {"span"}, {"text-info-summary"})
         IN IF text_summary # None THEN get_text(h, text_summary)
            ELSE description_text
    ELSE description_text

\* every span of the descr div is taken for a toggle
toggle_elements_m(h, descr_div) == find_all(h, descr_div, {"span"}, {}, TRUE)

\* descr_div.find_all(['span'], class_=['more', 'less'])
toggle_elements(h, descr_div) ==
    find_all(h, descr_div, {"span"}, {"more", "less"}, TRUE)

RECURSIVE decompose_each(_, _)
\* for element in ...: element.decompose()
decompose_each(h, es) ==
    IF es = <<>> THEN h ELSE decompose_each(decompose(h, Head(es)), Tail(es))

\* third try: the descr div's text once the More/Less buttons are removed;
\* gives the text and the document as the removal leaves it
third_try(h, content_wrap, description_text) ==
    LET descr_div == find(h, content_wrap, {"div"}, {"descr"})
    IN IF description_text = <<>> /\ descr_div # None
       THEN LET h2 == decompose_each(h, toggle_elements(h, descr_div))
            IN [soup |-> h2, text |-> get_text(h2, descr_div)]
       ELSE [soup |-> h, text |-> description_text]

\* the record is kept whatever its title
cruise_keep_m(day_info) == day_info.day # <<>>

\* if day_info['day'] and day_info['title']
cruise_keep(day_info) == day_info.day # <<>> /\ day_info.title # <<>>

\* the generic message when no body text was found
generic_body(day_info) ==
    IF day_info.body = <<>>
    THEN [day_info EXCEPT !.body = EXPLORE \o day_info.title \o AND_ENJOY]
    ELSE day_info

\* lines 123-163: the second div of an item with a known day
cruise_second_div(h, second_div, day_info) ==
    LET location_h5 == find(h, second_div, {"h5"}, {})
        d1 == IF location_h5 # None
              THEN [day_info EXCEPT
                      !.title = clean_text(PyStr(get_text(h, location_h5))).str]
              ELSE day_info
        content_wrap == find(h, second_div, {"div"}, {"content-wrap"})
        third == third_try(h, content_wrap,
                     second_try(h, content_wrap, first_try(h, content_wrap)))
        h2 == IF content_wrap # None THEN third.soup ELSE h
        d2 == IF content_wrap # None /\ third.text # <<>>
              THEN [d1 EXCEPT !.body = clean_text(PyStr(third.text)).str]
              ELSE d1
        d3 == IF d2.body = <<>> /\ d2.title = AT_SEA
              THEN [d2 EXCEPT !.body = SEA_DAY_BODY]
              ELSE d2
    IN [soup |-> h2, day_info |-> d3, skip |-> FALSE]

\* one pass of the for loop over day_items, up to the inclusion test:
\* the document after it, the day_info built, and whether `continue` was hit
cruise_item(h, item) ==
    LET divs == find_all(h, item, {"div"}, {}, FALSE)
        unchanged == [soup |-> h, day_info |-> new_day_info, skip |-> FALSE]
    IN IF Len(divs) >= 2
       THEN LET day_h5 == find(h, divs[1], {"h5"}, {})
                day_match == IF day_h5 # None
                             THEN cruise_day_match(get_text(h, day_h5))
                             ELSE PyNone
            IN IF day_h5 # None /\ day_match.none
               THEN [unchanged EXCEPT !.skip = TRUE]
               ELSE cruise_second_div(h, divs[2],
                        IF day_h5 # None
                        THEN [new_day_info EXCEPT !.day = day_match.str]
                        ELSE new_day_info)
       ELSE unchanged

(***************************************************************************)
(* parse_tour_itinerary_description, parse_tour_itinerary_days             *)
(***************************************************************************)
\* the description node's absence gives an empty list
no_description_m == <<>>

\* return [""]
no_description == << <<>> >>

\* [s.strip() for s in text.split('.') if s.strip()]
sentences_of(text) ==
    LET parts == split(text, ".")
    IN SelectSeq([k \in 1..Len(parts) |-> strip(parts[k])], LAMBDA s : s # <<>>)

parse_tour_itinerary_description(h) ==
    LET description_elem ==
            find(h, Root, {"div"}, {"ao-clp-custom-tdp-itinerary__description"})
    IN IF description_elem # None
       THEN << join(<<".", " ">>,
                    sentences_of(clean_text(PyStr(get_text(h, description_elem))).str)) >>
       ELSE no_description

\* re: Day (\d+): matched at position i of s
TourDayAt(s, i) ==
    /\ HasAt(s, i, <<"D", "a", "y", " ">>)
    /\ Run(s, i + 4, Digits) >= 1
    /\ HasAt(s, i + 4 + Run(s, i + 4, Digits), <<":">>)

\* re.search(r'Day (\d+):', s): group(1) of the leftmost match, or None
tour_day_match(s) ==
    IF \E i \in 1..Len(s) : TourDayAt(s, i)
    THEN LET i == CHOOSE j \in 1..Len(s) :
                      /\ TourDayAt(s, j)
                      /\ \A k \in 1..(j - 1) : ~TourDayAt(s, k)
         IN PyStr(SubSeq(s, i + 4, i + 3 + Run(s, i + 4, Digits)))
    ELSE PyNone

\* re.sub(r'^Day \d+:\s*', '', s)
tour_clean_title(s) ==
    IF TourDayAt(s, 1)
    THEN LET e == 5 + Run(s, 5, Digits) + 1
         IN SubSeq(s, e + Run(s, e, Whitespace), Len(s))
    ELSE s

\* lines 211-220: the text of the title block, arrow text removed, cleaned
tour_title_text(h, title_elem) ==
    LET title_text == get_text(h, title_elem)
        arrow_elem == find(h, title_elem, {"div"}, {"ao-common-accordion__arrow"})
        t2 == IF arrow_elem # None
              THEN strip(str_replace(title_text, get_text(h, arrow_elem), <<>>))
              ELSE title_text
    IN clean_text(PyStr(t2)).str

RECURSIVE texts_of(_, _)
\* [p.get_text(strip=True) for p in paragraphs]
texts_of(h, es) ==
    IF es = <<>> THEN <<>> ELSE <<get_text(h, Head(es))>> \o texts_of(h, Tail(es))

\* lines 236-245: the body of the content block
tour_body(h, item) ==
    LET content_elem ==
            find(h, item, {"div"}, {"ao-common-accordion__bottom-content"})
        paragraphs == find_all(h, content_elem, {"p"}, {}, TRUE)
        body_text == IF paragraphs # <<>>
                     THEN join(<<" ">>, texts_of(h, paragraphs))
                     ELSE get_text(h, content_elem)
    IN IF content_elem # None THEN clean_text(PyStr(body_text)).str ELSE <<>>

\* if day_info['title'] and day_info['body']
tour_keep(day_info) == day_info.title # <<>> /\ day_info.body # <<>>

\* one pass of the for loop over day_items, up to the inclusion test
tour_item(h, item) ==
    LET title_elem == find(h, item, {"div"}, {"js-ao-common-accordion__title"})
        title_text == tour_title_text(h, title_elem)
        day_match == tour_day_match(title_text)
    IN IF title_elem = None \/ day_match.none
       THEN [day_info |-> new_day_info, skip |-> TRUE]
       ELSE [day_info |-> [new_day_info EXCEPT
                             !.day = day_match.str,
                             !.title = tour_clean_title(title_text),
                             !.body = tour_body(h, item)],
             skip |-> FALSE]

\* the new record put in front of the list
append_m(list, x) == <<x>> \o list

\* itinerary_items.append(day_info)
append(list, x) == Append(list, x)

(***************************************************************************)
(* requests                                                                *)
(***************************************************************************)
\* only server errors are taken for failures
raise_for_status_m(status) == status >= 500

\* response.raise_for_status(): raises for 4xx and 5xx
raise_for_status(status) == status >= 400 /\ status < 600

(***************************************************************************)
(* Inputs: URLs, markup, responses                                         *)
(***************************************************************************)
Urls ==
    { <<"h", ":", "/", "/">> \o CRUISES_FLIGHTCENTRE \o <<".", "c", "o", "/", "x">>,
      <<"h", ":", "/", "/">> \o TOURS_FLIGHTCENTRE \o <<"/", "t", "/", "1">>,
      <<"h", ":", "/", "/">> \o TOURS_FLIGHTCENTRE \o <<"/", "?", "r", "=">>
          \o CRUISES_FLIGHTCENTRE,
      <<"h", ":", "/", "/", "e", "x", ".", "c", "o", "/">>,
      <<"h", ":", "/", "/", "c", "r", "u", "i", "s", "e", ".", "f", "l", "i",
        "g", "h", "t", "c", "e", "n", "t", "r", "e">>,
      <<"t", "o", "u", "r", "s", "-", "f", "l", "i", "g", "h", "t", "c", "e",
        "n", "t", "r", "e">>,
      <<>> }

H5(s) == El("h5", {}, <<Txt(s)>>)

Span(cls, s) == El("span", cls, <<Txt(s)>>)

\* a date-list item: the day/date block and the location block
DateList(kids) == El("div", {"date-list"}, kids)

DayBlock(s) == El("div", {}, <<H5(s), Txt(<<"1", "/", "2">>)>>)

Location(heading, rest) == El("div", {"loc"}, heading \o rest)

ContentWrap(kids) == El("div", {"content-wrap"}, kids)

DAY_1 == <<"D", "a", "y", " ", "1">>
DAY_2 == <<"D", "a", "y", " ", " ", "2">>
DAY_30 == <<"D", "a", "y", "\n", "3", "0", "a">>

\* the date-list items a cruise page is made of
CruiseItems ==
    { \* all three body sources present: the nested summary wins
      DateList(<<DayBlock(DAY_2),
                 Location(<<H5(<<"N">>)>>, <<ContentWrap(<<
                     Span({"text-info-summary"}, <<>>),
                     El("span", {"text-info"},
                        <<Span({"text-info-summary"}, <<" ", "a", ELL>>)>>),
                     El("div", {"descr"}, <<Txt(<<"c">>)>>)>>)>>)>>),
      \* a text-info span without a summary, a top-level summary, a descr div
      DateList(<<DayBlock(DAY_1),
                 Location(<<H5(<<"S", RSQ>>)>>, <<ContentWrap(<<
                     El("span", {"text-info"}, <<Txt(<<"t">>)>>),
                     Span({"text-info-summary"}, <<LDQ, "b">>),
                     El("div", {"descr"}, <<Txt(<<"c">>)>>)>>)>>)>>),
      \* an empty nested summary before a top-level one: find gives the empty
      \* one both times, and the descr div is read
      DateList(<<DayBlock(DAY_1),
                 Location(<<H5(<<"T">>)>>, <<ContentWrap(<<
                     El("span", {"text-info"},
                        <<Span({"text-info-summary"}, <<" ">>)>>),
                     Span({"text-info-summary"}, <<"b">>),
                     El("div", {"descr"}, <<Txt(<<"d">>)>>)>>)>>)>>),
      \* only a descr div, with More/Less buttons and a plain span
      DateList(<<DayBlock(DAY_30),
                 Location(<<H5(<<"M">>)>>, <<ContentWrap(<<
                     El("div", {"descr"},
                        <<Txt(<<"x", EM>>), Span({"more"}, <<"M", "o">>),
                          Span({"em"}, <<"y">>),
                          Span({"less", "btn"}, <<"L">>)>>)>>)>>)>>),
      \* a sea day without a content wrapper
      DateList(<<DayBlock(DAY_1), Location(<<H5(AT_SEA)>>, <<>>)>>),
      \* a sea day whose descr div holds only the buttons
      DateList(<<DayBlock(DAY_2),
                 Location(<<H5(AT_SEA)>>, <<ContentWrap(<<
                     El("div", {"descr"}, <<Span({"more"}, <<"M">>)>>)>>)>>)>>),
      \* a port without any body text
      DateList(<<DayBlock(DAY_1),
                 Location(<<H5(<<"a", "t", " ", "s", "e", "a">>)>>,
                          <<ContentWrap(<<>>)>>)>>),
      \* the first heading is not a day
      DateList(<<DayBlock(<<"D", "a", "y", "1">>),
                 Location(<<H5(<<"Q">>)>>, <<>>)>>),
      \* a single block
      DateList(<<DayBlock(DAY_1)>>),
      \* no location heading, but a descr div with a button
      DateList(<<DayBlock(DAY_2),
                 Location(<<>>, <<ContentWrap(<<
                     El("div", {"descr"},
                        <<Txt(<<"z">>), Span({"less"}, <<"L">>)>>)>>)>>)>>),
      \* no day heading
      DateList(<<El("div", {}, <<>>),
                 Location(<<H5(<<"R">>)>>, <<ContentWrap(<<
                     Span({"text-info-summary"}, <<"r">>)>>)>>)>>) }

TitleBlock(kids) == El("div", {"js-ao-common-accordion__title"}, kids)

Arrow(s) == El("div", {"ao-common-accordion__arrow"}, <<Txt(s)>>)

BottomContent(kids) == El("div", {"ao-common-accordion__bottom-content"}, kids)

Accordion(kids) == El("li", {"js-ao-common-accordion"}, kids)

P(s) == El("p", {}, <<Txt(s)>>)

\* the accordion items a tour page is made of
TourItems ==
    { \* a day with an arrow and two paragraphs
      Accordion(<<TitleBlock(<<Txt(<<"D", "a", "y", " ", "1", "2", ":", " ", "H">>),
                               Arrow(<<">">>)>>),
                  BottomContent(<<P(<<"a", ".">>), P(<<" ", "b", RDQ>>)>>)>>),
      \* a day without paragraphs
      Accordion(<<TitleBlock(<<Txt(<<"D", "a", "y", " ", "2", ":", "A", EN, "B">>)>>),
                  BottomContent(<<Txt(<<LSQ, "c">>)>>)>>),
      \* a row that is not a day
      Accordion(<<TitleBlock(<<Txt(<<"I", "n", "c", "l">>)>>),
                  BottomContent(<<P(<<"i">>)>>)>>),
      \* a row with the day pattern inside its title
      Accordion(<<TitleBlock(<<Txt(<<"X", " ", "D", "a", "y", " ", "3", ":", " ", "Y">>)>>),
                  BottomContent(<<P(<<"o">>)>>)>>),
      \* no title block
      Accordion(<<BottomContent(<<P(<<"n">>)>>)>>),
      \* a day without a content block
      Accordion(<<TitleBlock(<<Txt(<<"D", "a", "y", " ", "1", ":", " ", "K">>)>>)>>),
      \* a day without a title
      Accordion(<<TitleBlock(<<Txt(<<"D", "a", "y", " ", "4", ":", " ">>)>>),
                  BottomContent(<<P(<<"e">>)>>)>>) }

\* sequences over S of length at most n
SeqsUpTo(S, n) == UNION { [1..k -> S] : k \in 0..n }

Document(kids) == El("[document]", {}, kids)

CruisePages ==
    { Document(<<El("div", {c}, items)>>) :
        c \in {"grid-item-block-dates-accordion", "accordion-block", "other"},
        items \in SeqsUpTo(CruiseItems, MaxItems) }

\* the itinerary description blocks of a tour page
Descriptions ==
    { <<>>,
      <<El("div", {"ao-clp-custom-tdp-itinerary__description"},
           <<Txt(<<" ", "a", EM, " ", ".", " ", ".">>), P(<<"b", ".", "c">>)>>)>>,
      <<El("div", {"ao-clp-custom-tdp-itinerary__description"}, <<>>)>> }

\* an inclusions section outside the itinerary section
Inclusions ==
    El("section", {"ao-clp-custom-tdp-inclusions"},
       <<Accordion(<<TitleBlock(<<Txt(<<"D", "a", "y", " ", "9", ":", " ", "W">>)>>),
                     BottomContent(<<P(<<"w">>)>>)>>)>>)

TourPages ==
    { Document(d \o <<El("section", {c}, items), Inclusions>>) :
        d \in Descriptions,
        c \in {"ao-clp-custom-tdp-itinerary", "other"},
        items \in SeqsUpTo(TourItems, MaxItems) }

Pages == CruisePages \cup TourPages

\* what the server may answer to the page request
Responses ==
    { [kind |-> "ok", status |-> 200, text |-> p] : p \in Pages }
    \cup { [kind |-> "ok", status |-> s, text |-> Document(<<>>)] :
             s \in {304, 404, 500} }
    \cup { [kind |-> k, status |-> 0, text |-> Document(<<>>)] :
             k \in {"Timeout", "ConnectionError"} }

(***************************************************************************)
(* State                                                                   *)
(***************************************************************************)
NoResponse == [kind |-> "none", status |-> 0, text |-> Document(<<>>)]

NoMarkup == Document(<<>>)

NoResult == [returned |-> FALSE, summary |-> <<>>, itinerary |-> <<>>]

Unset == "unset"

InitScrape ==
    /\ pc = "start"
    /\ requests = <<>>
    /\ response = NoResponse
    /\ scraper_type = Unset
    /\ html_content = NoMarkup
    /\ soup = <<>>
    /\ called = {}
    /\ day_items = <<>>
    /\ idx = 0
    /\ itinerary_items = <<>>
    /\ origin = <<>>
    /\ summary = <<>>
    /\ result = NoResult
    /\ err = "none"

Init ==
    /\ url \in Urls
    /\ InitScrape
    /\ norm_in = PyNone
    /\ norm_out = <<>>

(***************************************************************************)
(* scrape_content, step by step                                            *)
(***************************************************************************)
\* lines 255-258
Classify ==
    /\ pc = "start"
    /\ scraper_type' = determine_scraper_type(url)
    /\ IF scraper_type' = NoType
       THEN pc' = "raised" /\ err' = "unrecognized"
       ELSE pc' = "robots" /\ err' = err
    /\ UNCHANGED <<url, requests, response, html_content, soup, called,
                   day_items, idx, itinerary_items, origin, summary, result,
                   norm_vars>>

\* check_robots_txt: whatever the answer, True is returned and ignored
CheckRobots ==
    /\ pc = "robots"
    /\ \E outcome \in {"200", "other", "exception"} :
          requests' = Append(requests, "robots.txt")
    /\ pc' = "fetch"
    /\ UNCHANGED <<url, response, scraper_type, html_content, soup, called,
                   day_items, idx, itinerary_items, origin, summary, result,
                   err, norm_vars>>

\* fetch_page
FetchPage ==
    /\ pc = "fetch"
    /\ requests' = Append(requests, "page")
    /\ \E r \in Responses :
          /\ response' = r
          /\ IF r.kind # "ok" \/ raise_for_status(r.status)
             THEN pc' = "raised" /\ err' = "fetch" /\ html_content' = html_content
             ELSE pc' = "parse" /\ err' = err /\ html_content' = r.text
    /\ UNCHANGED <<url, scraper_type, soup, called, day_items, idx,
                   itinerary_items, origin, summary, result, norm_vars>>

\* line 271
ParsePage ==
    /\ pc = "parse"
    /\ soup' = BeautifulSoup(html_content)
    /\ pc' = IF scraper_type = "cruise" THEN "cruise" ELSE "tour_summary"
    /\ UNCHANGED <<url, requests, response, scraper_type, html_content, called,
                   day_items, idx, itinerary_items, origin, summary, result,
                   err, norm_vars>>

\* lines 275-276 and 82-94
CruiseBegin ==
    /\ pc = "cruise"
    /\ summary' = << <<>> >>
    /\ called' = called \cup {"parse_cruise_itinerary_days"}
    /\ itinerary_items' = <<>>
    /\ origin' = <<>>
    /\ IF cruise_container(soup) = None
       THEN pc' = "format" /\ day_items' = day_items /\ idx' = idx
       ELSE /\ day_items' = find_all(soup, cruise_container(soup), {"div"},
                                     {"date-list"}, TRUE)
            /\ idx' = 1
            /\ pc' = "cruise_loop"
    /\ UNCHANGED <<url, requests, response, scraper_type, html_content, soup,
                   result, err, norm_vars>>

\* lines 96-171: one item of the loop
CruiseItem ==
    /\ pc = "cruise_loop"
    /\ idx <= Len(day_items)
    /\ LET r == cruise_item(soup, day_items[idx])
       IN /\ soup' = r.soup
          /\ IF ~r.skip /\ cruise_keep(r.day_info)
             THEN /\ itinerary_items' = append(itinerary_items, generic_body(r.day_info))
                  /\ origin' = append(origin, idx)
             ELSE UNCHANGED <<itinerary_items, origin>>
    /\ idx' = idx + 1
    /\ UNCHANGED <<pc, url, requests, response, scraper_type, html_content,
                   called, day_items, summary, result, err, norm_vars>>

\* line 173
CruiseReturn ==
    /\ pc = "cruise_loop"
    /\ idx > Len(day_items)
    /\ pc' = "format"
    /\ UNCHANGED <<url, requests, response, scraper_type, html_content, soup,
                   called, day_items, idx, itinerary_items, origin, summary,
                   result, err, norm_vars>>

\* line 279
TourSummary ==
    /\ pc = "tour_summary"
    /\ summary' = parse_tour_itinerary_description(soup)
    /\ called' = called \cup {"parse_tour_itinerary_description"}
    /\ pc' = "tour"
    /\ UNCHANGED <<url, requests, response, scraper_type, html_content, soup,
                   day_items, idx, itinerary_items, origin, result, err,
                   norm_vars>>

\* lines 281 and 190-198
TourBegin ==
    /\ pc = "tour"
    /\ called' = called \cup {"parse_tour_itinerary_days"}
    /\ itinerary_items' = <<>>
    /\ origin' = <<>>
    /\ LET itinerary_section ==
               find(soup, Root, {"section"}, {"ao-clp-custom-tdp-itinerary"})
       IN IF itinerary_section = None
          THEN pc' = "format" /\ day_items' = day_items /\ idx' = idx
          ELSE /\ day_items' = find_all(soup, itinerary_section, {"li"},
                                        {"js-ao-common-accordion"}, TRUE)
               /\ idx' = 1
               /\ pc' = "tour_loop"
    /\ UNCHANGED <<url, requests, response, scraper_type, html_content, soup,
                   summary, result, err, norm_vars>>

\* lines 200-248: one item of the loop
TourItem ==
    /\ pc = "tour_loop"
    /\ idx <= Len(day_items)
    /\ LET r == tour_item(soup, day_items[idx])
       IN IF ~r.skip /\ tour_keep(r.day_info)
          THEN /\ itinerary_items' = append(itinerary_items, r.day_info)
               /\ origin' = append(origin, idx)
          ELSE UNCHANGED <<itinerary_items, origin>>
    /\ idx' = idx + 1
    /\ UNCHANGED <<pc, url, requests, response, scraper_type, html_content,
                   soup, called, day_items, summary, result, err, norm_vars>>

\* line 250
TourReturn ==
    /\ pc = "tour_loop"
    /\ idx > Len(day_items)
    /\ pc' = "format"
    /\ UNCHANGED <<url, requests, response, scraper_type, html_content, soup,
                   called, day_items, idx, itinerary_items, origin, summary,
                   result, err, norm_vars>>

\* lines 284-289
Format ==
    /\ pc = "format"
    /\ result' = [returned |-> TRUE, summary |-> summary,
                  itinerary |-> itinerary_items]
    /\ pc' = "done"
    /\ UNCHANGED <<url, requests, response, scraper_type, html_content, soup,
                   called, day_items, idx, itinerary_items, origin, summary,
                   err, norm_vars>>

Next ==
    \/ Classify
    \/ CheckRobots
    \/ FetchPage
    \/ ParsePage
    \/ CruiseBegin
    \/ CruiseItem
    \/ CruiseReturn
    \/ TourSummary
    \/ TourBegin
    \/ TourItem
    \/ TourReturn
    \/ Format

Spec == Init /\ [][Next]_vars

(***************************************************************************)
(* The normalizer on its own                                               *)
(***************************************************************************)
Alphabet == {EN, EM, RSQ, LSQ, LDQ, RDQ, ELL, "a", ".", "'"}

\* clean_text is applied at most this many times in a row
MaxApply == 2

InitNorm ==
    /\ url = <<>>
    /\ InitScrape
    /\ norm_in \in {PyNone} \cup { PyStr(s) : s \in SeqsUpTo(Alphabet, MaxLen) }
    /\ norm_out = <<>>

\* text = clean_text(text)
Normalize ==
    /\ Len(norm_out) < MaxApply
    /\ norm_out' = Append(norm_out,
                          clean_text(IF norm_out = <<>> THEN norm_in
                                     ELSE norm_out[Len(norm_out)]))
    /\ UNCHANGED <<norm_in, scrape_vars>>

NextNorm == Normalize

SpecNorm == InitNorm /\ [][NextNorm]_vars

(***************************************************************************)
(* Properties                                                              *)
(***************************************************************************)
TargetChars == {EN, EM, RSQ, LSQ, LDQ, RDQ, ELL}

NoTargets(s) == \A i \in 1..Len(s) : s[i] \notin TargetChars

Range(f) == { f[i] : i \in DOMAIN f }

\* the page was parsed and the document is at hand
Parsed ==
    pc \in {"cruise", "cruise_loop", "tour_summary", "tour", "tour_loop",
            "format", "done"}

Recognized(u) ==
    Contains(CRUISES_FLIGHTCENTRE, u) \/ Contains(TOURS_FLIGHTCENTRE, u)

\* C1: a URL with neither "cruises.flightcentre" nor "tours.flightcentre"
\* makes scrape_content fail with the unrecognized-URL error, and no request
\* (robots.txt or page) is ever issued for it.
C1_UnrecognizedNoFetch ==
    ~Recognized(url) =>
        /\ requests = <<>>
        /\ response = NoResponse
        /\ ~result.returned
        /\ pc \in {"start", "raised"}
        /\ pc = "raised" => err = "unrecognized"

\* a near-miss URL has been refused
C1_Witness ==
    /\ ~Recognized(url)
    /\ Contains(<<"f", "l", "i", "g", "h", "t", "c", "e", "n", "t", "r", "e">>, url)
    /\ pc = "raised"
    /\ err = "unrecognized"

\* the page request was answered, and not with a 2xx status
FetchNot2xx ==
    /\ response.kind # "none"
    /\ response.kind # "ok" \/ response.status \notin 200..299

\* the page request met a network error, a timeout or a 4xx/5xx status
FetchError ==
    /\ response.kind # "none"
    /\ response.kind # "ok" \/ response.status \in 400..599

NothingExtracted ==
    /\ pc = "raised"
    /\ err = "fetch"
    /\ ~result.returned
    /\ called = {}
    /\ itinerary_items = <<>>
    /\ summary = <<>>

NonEmptyRecord(r) == r.day # <<>> /\ r.title # <<>> /\ r.body # <<>>

\* C3: every record emitted by either extractor has a non-empty day, title
\* and body (cruise bodies are synthesized when the page gave none, tour
\* items with an empty body are dropped).
C3_NonEmptyFields ==
    /\ \A k \in 1..Len(itinerary_items) : NonEmptyRecord(itinerary_items[k])
    /\ \A k \in 1..Len(result.itinerary) : NonEmptyRecord(result.itinerary[k])

\* a cruise result holds a record whose body was synthesized
C3_Witness ==
    /\ pc = "done"
    /\ scraper_type = "cruise"
    /\ \E k \in 1..Len(result.itinerary) :
          result.itinerary[k].body =
              EXPLORE \o result.itinerary[k].title \o AND_ENJOY

\* the day number the item's markup carries, as the extractor reads it
ItemDay(h, item) ==
    IF scraper_type = "cruise"
    THEN cruise_day_match(get_text(h, find(h, find_all(h, item, {"div"}, {}, FALSE)[1],
                                          {"h5"}, {}))).str
    ELSE tour_day_match(tour_title_text(h,
             find(h, item, {"div"}, {"js-ao-common-accordion__title"}))).str

\* C4: the itinerary is an order-preserving subsequence of the day items:
\* the items are taken in document order, each gives at most one record, and
\* the records stay in the order of the items they came from.
C4_DocumentOrder ==
    pc \in {"cruise_loop", "tour_loop", "format", "done"} =>
        /\ \A i, j \in 1..Len(day_items) : i < j => day_items[i] < day_items[j]
        /\ Len(origin) = Len(itinerary_items)
        /\ \A k \in 1..Len(origin) : origin[k] \in 1..(idx - 1)
        /\ \A i, j \in 1..Len(origin) : i < j => origin[i] < origin[j]
        /\ \A k \in 1..Len(origin) :
              itinerary_items[k].day =
                  ItemDay(BeautifulSoup(html_content), day_items[origin[k]])
        /\ pc = "done" => result.itinerary = itinerary_items

\* two records are returned, day numbers out of order or repeated
C4_Witness ==
    /\ pc = "done"
    /\ Len(result.itinerary) = 2
    /\ \/ result.itinerary[1] = result.itinerary[2]
       \/ /\ result.itinerary[1].day = <<"2">>
          /\ result.itinerary[2].day = <<"1">>

\* C5: the tour extractor keeps an accordion item only when its title text
\* (arrow text removed, normalized) starts with "Day <N>:"; day is N and
\* title is the text with that prefix stripped.
C5_DayPrefixAtStart ==
    (scraper_type = "tour" /\ pc \in {"tour_loop", "format", "done"}) =>
        \A k \in 1..Len(origin) :
            LET title_elem == find(soup, day_items[origin[k]], {"div"},
                                   {"js-ao-common-accordion__title"})
                t == tour_title_text(soup, title_elem)
            IN /\ title_elem # None
               /\ TourDayAt(t, 1)
               /\ itinerary_items[k].day = SubSeq(t, 5, 4 + Run(t, 5, Digits))
               /\ itinerary_items[k].title = tour_clean_title(t)

\* C6: a returned summary is a list of exactly one string, which is empty
\* for every cruise URL whatever the page holds, and empty for a tour page
\* without an itinerary description node.
C6_SummaryShape ==
    result.returned =>
        /\ Len(result.summary) = 1
        /\ scraper_type = "cruise" => result.summary[1] = <<>>
        /\ find(BeautifulSoup(html_content), Root, {"div"},
                {"ao-clp-custom-tdp-itinerary__description"}) = None
              => result.summary[1] = <<>>

\* a cruise call returned for a page that holds a description text
C6_Witness ==
    /\ pc = "done"
    /\ result.returned
    /\ scraper_type = "cruise"
    /\ parse_tour_itinerary_description(soup)[1] # <<>>

NormalizedRecord(r) ==
    NoTargets(r.icon) /\ NoTargets(r.day) /\ NoTargets(r.title)
        /\ NoTargets(r.image) /\ NoTargets(r.body)

\* C7: no string of a result (the summary string, the day, title and body
\* of every record) holds one of the seven typographic characters.
C7_ResultNormalized ==
    /\ \A k \in 1..Len(itinerary_items) : NormalizedRecord(itinerary_items[k])
    /\ \A k \in 1..Len(summary) : NoTargets(summary[k])
    /\ \A k \in 1..Len(result.itinerary) : NormalizedRecord(result.itinerary[k])
    /\ \A k \in 1..Len(result.summary) : NoTargets(result.summary[k])

\* the markup held a typographic character deep in the text of a returned field
C7_Witness ==
    /\ pc = "done"
    /\ \/ /\ scraper_type = "cruise"
          /\ \E k \in 1..Len(result.itinerary) :
                result.itinerary[k].title = <<"S", "'">>
       \/ /\ scraper_type = "tour"
          /\ result.summary[1] # <<>>
          /\ \E k \in 1..Len(result.itinerary) :
                result.itinerary[k].title = <<"A", "-", "B">>

\* C8: clean_text is idempotent, and returns its argument unchanged when the
\* argument is None, empty or free of the seven typographic characters.
C8_Idempotent ==
    /\ Len(norm_out) >= 2 => norm_out[2] = norm_out[1]
    /\ (Len(norm_out) >= 1 /\ NoTargets(norm_in.str)) => norm_out[1] = norm_in

\* a string with an ellipsis and a quote went through clean_text twice
C8_Witness ==
    /\ Len(norm_out) = 2
    /\ ELL \in Range(norm_in.str)
    /\ LSQ \in Range(norm_in.str)
    /\ norm_out[1] # norm_in

RECURSIVE TextOutside(_, _, _)
\* the stripped strings under the nodes ks, those under an element with a
\* class of skip left out
TextOutside(h, ks, skip) ==
    IF ks = <<>> THEN <<>>
    ELSE LET n == h[Head(ks)]
         IN (IF n.tag = "#text" THEN strip(n.text)
             ELSE IF n.tag = "span" /\ n.cls \cap skip # {} THEN <<>>
             ELSE TextOutside(h, n.kids, skip))
            \o TextOutside(h, Tail(ks), skip)

\* the body the priority chain of C9 gives an item of the page as fetched
ExpectedBody(h, item, title) ==
    LET second_div == find_all(h, item, {"div"}, {}, FALSE)[2]
        cw == find(h, second_div, {"div"}, {"content-wrap"})
        text_info == IF cw = None THEN None ELSE find(h, cw, {"span"}, {"text-info"})
        nested == IF text_info = None THEN None
                  ELSE find(h, text_info, {"span"}, {"text-info-summary"})
        anywhere == IF cw = None THEN None
                    ELSE find(h, cw, {"span"}, {"text-info-summary"})
        descr == IF cw = None THEN None ELSE find(h, cw, {"div"}, {"descr"})
        a == IF nested = None THEN <<>> ELSE get_text(h, nested)
        b == IF anywhere = None THEN <<>> ELSE get_text(h, anywhere)
        c == IF descr = None THEN <<>>
             ELSE TextOutside(h, h[descr].kids, {"more", "less"})
        src == IF a # <<>> THEN a ELSE IF b # <<>> THEN b ELSE c
    IN IF src # <<>> THEN replace_each(src, replacements)
       ELSE IF title = AT_SEA THEN SEA_DAY_BODY
       ELSE EXPLORE \o title \o AND_ENJOY

\* C9: the body of an emitted cruise record is the normalized text of the
\* first non-empty source among the nested summary span, a summary span
\* anywhere in the content wrapper and the descr div without its more/less
\* spans; with no text, the sea-day sentence iff the title is "At Sea", and
\* the generic sentence otherwise.
C9_BodyPriority ==
    (scraper_type = "cruise" /\ pc \in {"cruise_loop", "format", "done"}) =>
        \A k \in 1..Len(itinerary_items) :
            itinerary_items[k].body =
                ExpectedBody(BeautifulSoup(html_content), day_items[origin[k]],
                             itinerary_items[k].title)

\* a result with a body from the second source and a sea-day body
C9_Witness ==
    /\ pc = "done"
    /\ scraper_type = "cruise"
    /\ \E j, k \in 1..Len(result.itinerary) :
          /\ result.itinerary[j].body = <<"\"", "b">>
          /\ result.itinerary[k].body = SEA_DAY_BODY

\* C10 as stated: an extractor leaves the document it is given unchanged.
C10_TreeUnchanged ==
    Parsed => ToTree(soup, Root) = html_content

RECURSIVE WithoutToggles(_, _)
\* the tree t, the more/less spans under a descr div left out
WithoutToggles(t, inDescr) ==
    LET d == inDescr \/ (t.tag = "div" /\ "descr" \in t.cls)
        keep == SelectSeq(t.kids,
                    LAMBDA c : ~(d /\ c.tag = "span" /\ c.cls \cap {"more", "less"} # {}))
    IN [t EXCEPT !.kids = [k \in 1..Len(keep) |-> WithoutToggles(keep[k], d)]]

\* C10 as amended: the tour summary extractor and the tour day extractor
\* leave the document unchanged; the cruise day extractor changes it only by
\* removing span elements of class more or less from descr divs.
C10_OnlyTogglesRemoved ==
    Parsed =>
        /\ scraper_type = "tour" => ToTree(soup, Root) = html_content
        /\ WithoutToggles(ToTree(soup, Root), FALSE)
              = WithoutToggles(html_content, FALSE)

\* the cruise extractor has returned and the document lost its buttons
C10_Witness ==
    /\ pc = "done"
    /\ scraper_type = "cruise"
    /\ ToTree(soup, Root) # html_content
    /\ Len(result.itinerary) >= 1

====
